---- MODULE Spec2Model ----
(***************************************************************************)
(* Progress tracking of the LearnHub course catalogue.                     *)
(*                                                                         *)
(* The store is the user_courses table with its UNIQUE(user_id, course_id) *)
(* constraint and its three row-level-security policies.  Every client     *)
(* session runs one CourseDetail component: fetchData on mount, the auth   *)
(* listener, and handleToggleComplete.  Every await of the component is an *)
(* interleaving point: a toggle is split into the handler up to its await  *)
(* (the request is sent), the store processing the request, and the        *)
(* handler's continuation on the response.                                 *)
(*                                                                         *)
(* Timestamps are readings of a clock that starts at 1; 0 is SQL NULL.     *)
(* Row 0 (NullRow) is JavaScript null / "no row".                          *)
(***************************************************************************)
EXTENDS Integers, Sequences, FiniteSets, TLC

\* ---------------------------------------------------------------- bounds
NumSessions == 2
MaxEvents == 5
MaxEmailLen == 7
MaxPasswordLen == 7
MinPasswordLen == 6
MinTldLen == 2

Sessions == 1..NumSessions
Users == {"u1", "u2"}
NoUser == "anon"
Courses == {"c1"}
NoCourse == "none"

\* ------------------------------------------------------------ the store
NullRow ==
    [id |-> 0, user_id |-> NoUser, course_id |-> NoCourse,
     completed |-> FALSE, completed_at |-> 0]

VARIABLES
    rows,        \* public.user_courses
    nextId,      \* ids handed out so far (gen_random_uuid: always fresh)
    clock,       \* wall clock: the next reading new Date() returns
    authUid,     \* per session: principal of the session's JWT (auth.uid())
    mounted,     \* per session: a CourseDetail instance is mounted
    routeId,     \* per session: useParams().id
    course,      \* per session: useState course (NoCourse = null)
    user,        \* per session: useState user
    userCourse,  \* per session: useState userCourse (NullRow = null)
    loading,     \* per session: useState loading
    updating,    \* per session: useState updating
    fetchPc,     \* per session: position of fetchData
    fetchUser,   \* per session: fetchData's local currentUser
    togglePc,    \* per session: position of handleToggleComplete
    req,         \* per session: the request the pending toggle sent
    resp,        \* per session: the store's answer to it
    toast,       \* per session: last toast shown
    nav,         \* per session: last navigate() target
    call,        \* per session: record of the latest handleToggleComplete call
    nSucc,       \* per (principal, course): toggles the store answered without error
    nEvents,     \* user and environment events so far (page visits, clicks,
                 \* identity changes, outages)
    catalog,     \* public.courses (the ids of its rows)
    list,        \* the CourseList page of the client
    route,       \* the ProtectedRoute of the client
    authPage,    \* the Auth page of the client
    subs,        \* per session: subscriptions of its CourseDetail the auth
                 \* provider holds
    orphans,     \* pending toggles of CourseDetail instances that were replaced
                 \* by a new instance of their session
    stale,       \* per session: the fetchData its CourseDetail started for
                 \* the previous route id
    navbar       \* the Navbar of the client's page and the theme it toggles

vars ==
    <<rows, nextId, clock, authUid, mounted, routeId, course, user, userCourse,
      loading, updating, fetchPc, fetchUser, togglePc, req, resp, toast, nav,
      call, nSucc, nEvents, catalog, list, route, authPage, subs,
      orphans, stale, navbar>>

storeVars == <<rows, nextId>>
viewVars == <<course, user, userCourse, loading, updating>>
toggleVars == <<togglePc, req, resp, call, nSucc>>
fetchVars == <<fetchPc, fetchUser>>
appVars == <<catalog, stale, navbar, list, route, authPage>>
detailVars ==
    <<mounted, routeId, viewVars, fetchVars, toggleVars, toast, nav, subs,
      orphans>>

\* Row of the table addressed by primary key, NullRow when there is none.
RowById(rs, id) ==
    IF \E r \in rs : r.id = id THEN CHOOSE r \in rs : r.id = id ELSE NullRow

\* RLS: "Users can view their own progress" FOR SELECT USING (auth.uid() = user_id)
PolicySelect(uid, r) == uid = r.user_id

\* RLS: "Users can track their own progress" FOR INSERT WITH CHECK (auth.uid() = user_id)
PolicyInsert(uid, r) == uid = r.user_id

\* Variant: a table without the UPDATE policy.
PolicyUpdateOpen(uid, r) == TRUE

\* RLS: "Users can update their own progress" FOR UPDATE USING (auth.uid() = user_id)
PolicyUpdate(uid, r) == uid = r.user_id

\* Variant: a table without the unique constraint.
UniqueViolationNever(rs, u, c) == FALSE

\* UNIQUE(user_id, course_id)
UniqueViolation(rs, u, c) == \E r \in rs : r.user_id = u /\ r.course_id = c

\* .from("user_courses").select("*").eq("user_id", u).eq("course_id", c).maybeSingle()
\* issued with a JWT of principal uid.
SelectProgress(rs, uid, u, c) ==
    LET hit == {r \in rs : r.user_id = u /\ r.course_id = c /\ PolicySelect(uid, r)}
    IN IF hit = {} THEN NullRow ELSE CHOOSE r \in hit : TRUE

\* Rows an UPDATE ... WHERE id = q.id touches: the USING predicate filters rows.
UpdateTargets(rs, q) == {r \in rs : r.id = q.id /\ PolicyUpdate(q.uid, r)}

\* Variant: marking a course incomplete removes its row.
ApplyUpdateDeleting(rs, q) ==
    IF q.completed
    THEN (rs \ UpdateTargets(rs, q)) \cup
         {[r EXCEPT !.completed = q.completed, !.completed_at = q.completed_at] :
             r \in UpdateTargets(rs, q)}
    ELSE rs \ UpdateTargets(rs, q)

\* The table after the UPDATE.
ApplyUpdate(rs, q) ==
    (rs \ UpdateTargets(rs, q)) \cup
    {[r EXCEPT !.completed = q.completed, !.completed_at = q.completed_at] :
        r \in UpdateTargets(rs, q)}

\* The row an INSERT would add.
InsertedRow(q, id) ==
    [id |-> id, user_id |-> q.user_id, course_id |-> q.course_id,
     completed |-> q.completed, completed_at |-> q.completed_at]


\* ------------------------------------------------- the CourseDetail view
\* Route ids a page is opened with.
RouteIds == Courses

\* The ids of /course/:id when the page moves from one course to another.
DetailIds == Courses \cup {"c2"}

\* No fetchData of a previous route id is pending: pc is its position, id the
\* id of its closure, fetchUser its currentUser.
NoFetch == [pc |-> "none", id |-> NoCourse, fetchUser |-> NoUser]
Principals == Users \cup {NoUser}

NoRequest ==
    [op |-> "none", id |-> 0, user_id |-> NoUser, course_id |-> NoCourse,
     completed |-> FALSE, completed_at |-> 0, uid |-> NoUser, uc |-> NullRow]

NoResponse == [error |-> "", data |-> NullRow]

\* What is recorded about a session's latest handleToggleComplete call:
\*   ops        the store operations the call has issued, in order
\*   outcome    "none" | "pending" | "success" | "error" | "unauthenticated"
\*   muts       mutations of the call the store has committed
\*   noRecord   the store held no record for (user, route id) when the call began
\*   stored     the stored completed value of the record the call addresses,
\*              when the call began
\*   before     userCourse when the call began
\*   principal, courseId   `user` and the route id when the call began
\*   error      the error the call ended with ("" for none)
NoCall ==
    [ops |-> <<>>, outcome |-> "none", muts |-> 0, noRecord |-> FALSE,
     stored |-> FALSE, before |-> NullRow, principal |-> NoUser,
     courseId |-> NoCourse, error |-> ""]

\* Variant: the negation is forgotten.
NextCompletedKeep(uc) == uc.completed

\* completed: !userCourse.completed
NextCompleted(uc) == ~uc.completed

\* Variant: the timestamp is written whatever the new value.
NextCompletedAtAlways(uc, now) == now

\* completed_at: !userCourse.completed ? new Date().toISOString() : null
NextCompletedAt(uc, now) == IF ~uc.completed THEN now ELSE 0

\* Variant: a held record that is not completed is inserted again.
UpdateRequestReinsert(uc, uid, now) ==
    IF uc.completed
    THEN [op |-> "update", id |-> uc.id, user_id |-> uc.user_id,
          course_id |-> uc.course_id, completed |-> FALSE,
          completed_at |-> 0, uid |-> uid, uc |-> uc]
    ELSE [op |-> "insert", id |-> 0, user_id |-> uc.user_id,
          course_id |-> uc.course_id, completed |-> TRUE,
          completed_at |-> now, uid |-> uid, uc |-> uc]

\* .update({completed, completed_at}).eq("id", userCourse.id)
UpdateRequest(uc, uid, now) ==
    [op |-> "update", id |-> uc.id, user_id |-> uc.user_id,
     course_id |-> uc.course_id, completed |-> NextCompleted(uc),
     completed_at |-> NextCompletedAt(uc, now), uid |-> uid, uc |-> uc]

\* Variant: the record is created when the page is first used, not yet completed.
InsertRequestIncomplete(u, c, uid, now) ==
    [op |-> "insert", id |-> 0, user_id |-> u, course_id |-> c,
     completed |-> FALSE, completed_at |-> 0, uid |-> uid, uc |-> NullRow]

\* .insert({user_id: user.id, course_id: id, completed: true, completed_at: now})
InsertRequest(u, c, uid, now) ==
    [op |-> "insert", id |-> 0, user_id |-> u, course_id |-> c,
     completed |-> TRUE, completed_at |-> now, uid |-> uid, uc |-> NullRow]

\* setUserCourse({...userCourse, completed: !..., completed_at: ...})
LocalMirror(uc, now) ==
    [uc EXCEPT !.completed = NextCompleted(uc),
               !.completed_at = NextCompletedAt(uc, now)]

\* Variant: a setter that writes the state of whatever the session shows.
SetStateAlways(s, f, v) == [f EXCEPT ![s] = v]

\* A state setter of a component that is no longer mounted changes nothing.
SetState(s, f, v) == IF mounted[s] THEN [f EXCEPT ![s] = v] ELSE f

\* One more event of the user or the environment, within the bound.
Event == nEvents < MaxEvents /\ nEvents' = nEvents + 1

\* supabase.auth.onAuthStateChange(listener): one more subscription of the
\* component in the provider's registry.
Subscribe(n) == n + 1

\* Variant: the effect returns no cleanup.
UnsubscribeForgotten(n) == n

\* The effect's cleanup: subscription.unsubscribe()
Unsubscribe(n) == n - 1

\* The provider invokes the listeners of the subscriptions it holds.
ListenerRuns(n) == n > 0

\* CourseList before it is mounted: the useState initial values.  pc is the
\* position of fetchData, queried whether the user_courses read was issued,
\* subs the subscriptions of the component the auth provider holds.
ListInit ==
    [mounted |-> FALSE, courses |-> {}, userCourses |-> {}, user |-> NoUser,
     loading |-> TRUE, pc |-> "none", fetchUser |-> NoUser, toast |-> "none",
     queried |-> FALSE, subs |-> 0]

\* ProtectedRoute before it is mounted: the useState initial values.  pc is the
\* position of checkUser, got the user getUser() resolved with, answered
\* whether checkUser or the listener has reported an identity, nav where the
\* component navigated to, signedOut whether the last notification the listener
\* delivered was a sign-out.
RouteInit ==
    [mounted |-> FALSE, user |-> NoUser, loading |-> TRUE, pc |-> "none",
     got |-> NoUser, answered |-> FALSE, subs |-> 0, nav |-> "none",
     signedOut |-> FALSE]

\* No request to the identity provider.
NoCredentials == [kind |-> "none", email |-> <<>>, password |-> <<>>]

\* The Auth page: the useState initial values.  Strings are sequences of
\* UTF-16 code units; pc is the handler that awaits the provider, sent the
\* latest request given to the provider.
AuthPageInit ==
    [email |-> <<>>, password |-> <<>>, loading |-> FALSE, pc |-> "none",
     toast |-> "none", nav |-> "/auth", sent |-> NoCredentials]

\* The values of useTheme().theme: the stored choice or the provider's default.
Themes == {"system", "light", "dark"}

\* The Navbar of a page that passes it a user: pc is the position of
\* handleLogout, nav where it navigated to, theme the value useTheme() gives
\* (<ThemeProvider defaultTheme="system" enableSystem>), systemDark whether the
\* system prefers the dark mode, before the theme the latest toggle found.
NavbarInit ==
    [pc |-> "none", toast |-> "none", nav |-> "/courses", theme |-> "system",
     systemDark |-> FALSE, before |-> "none"]

\* Everything but the catalogue, the identities, the Auth page and the Navbar.
InitState ==
    /\ list = ListInit
    /\ route = RouteInit
    /\ rows = {}
    /\ nextId = 0
    /\ clock = 1
    /\ mounted = [s \in Sessions |-> FALSE]
    /\ routeId = [s \in Sessions |-> NoCourse]
    /\ course = [s \in Sessions |-> NoCourse]
    /\ user = [s \in Sessions |-> NoUser]
    /\ userCourse = [s \in Sessions |-> NullRow]
    /\ loading = [s \in Sessions |-> TRUE]
    /\ updating = [s \in Sessions |-> FALSE]
    /\ fetchPc = [s \in Sessions |-> "none"]
    /\ fetchUser = [s \in Sessions |-> NoUser]
    /\ togglePc = [s \in Sessions |-> "idle"]
    /\ req = [s \in Sessions |-> NoRequest]
    /\ resp = [s \in Sessions |-> NoResponse]
    /\ toast = [s \in Sessions |-> "none"]
    /\ nav = [s \in Sessions |-> "none"]
    /\ call = [s \in Sessions |-> NoCall]
    /\ nSucc = [u \in Users |-> [c \in Courses |-> 0]]
    /\ nEvents = 0
    /\ subs = [s \in Sessions |-> 0]
    /\ orphans = {}
    /\ stale = [s \in Sessions |-> NoFetch]

\* The catalogue holds the sample courses.
Init ==
    /\ InitState
    /\ navbar = NavbarInit
    /\ catalog = Courses
    /\ authUid \in [Sessions -> Users]
    /\ authPage = AuthPageInit

\* The pending toggle of the session's instance, as it goes on without it.
Orphan(s) ==
    [s |-> s, pc |-> togglePc[s], req |-> req[s], resp |-> resp[s],
     principal |-> call[s].principal, courseId |-> call[s].courseId]

\* The route /course/:id renders a new CourseDetail: the useState initial values,
\* and the effect starts fetchData.  The fetchData of the session's previous
\* instance has ended; a toggle of the previous instance that is still pending
\* goes on without a component.
Mount(s, c) ==
    /\ ~mounted[s]
    /\ fetchPc[s] = "none"
    /\ stale[s] = NoFetch
    /\ Event
    /\ orphans' = IF togglePc[s] = "idle" THEN orphans ELSE orphans \cup {Orphan(s)}
    /\ togglePc' = [togglePc EXCEPT ![s] = "idle"]
    /\ req' = [req EXCEPT ![s] = NoRequest]
    /\ resp' = [resp EXCEPT ![s] = NoResponse]
    /\ mounted' = [mounted EXCEPT ![s] = TRUE]
    /\ routeId' = [routeId EXCEPT ![s] = c]
    /\ course' = [course EXCEPT ![s] = NoCourse]
    /\ user' = [user EXCEPT ![s] = NoUser]
    /\ userCourse' = [userCourse EXCEPT ![s] = NullRow]
    /\ loading' = [loading EXCEPT ![s] = TRUE]
    /\ updating' = [updating EXCEPT ![s] = FALSE]
    /\ fetchPc' = [fetchPc EXCEPT ![s] = "getUser"]
    /\ nav' = [nav EXCEPT ![s] = "/course"]
    /\ call' = [call EXCEPT ![s] = NoCall]
    /\ UNCHANGED <<storeVars, clock, authUid, fetchUser, nSucc, toast>>
    /\ subs' = [subs EXCEPT ![s] = Subscribe(@)]
    /\ UNCHANGED appVars

\* fetchData: await supabase.auth.getUser(); setUser(currentUser)
FetchGetUser(s) ==
    /\ fetchPc[s] = "getUser"
    /\ fetchUser' = [fetchUser EXCEPT ![s] = authUid[s]]
    /\ user' = SetState(s, user, authUid[s])
    /\ fetchPc' = [fetchPc EXCEPT ![s] = "course"]
    /\ UNCHANGED <<nEvents, storeVars, clock, authUid, mounted, routeId, course, userCourse,
                   loading, updating, toggleVars, toast, nav>>
    /\ UNCHANGED <<subs, orphans, appVars>>

\* fetchData: the courses read succeeded; setCourse(courseData); without a
\* currentUser the function is done (finally: setLoading(false)).
FetchCourse(s) ==
    /\ fetchPc[s] = "course"
    /\ routeId[s] \in catalog
    /\ course' = SetState(s, course, routeId[s])
    /\ IF fetchUser[s] # NoUser
       THEN /\ fetchPc' = [fetchPc EXCEPT ![s] = "progress"]
            /\ UNCHANGED loading
       ELSE /\ fetchPc' = [fetchPc EXCEPT ![s] = "none"]
            /\ loading' = SetState(s, loading, FALSE)
    /\ UNCHANGED <<nEvents, storeVars, clock, authUid, mounted, routeId, user, userCourse,
                   updating, fetchUser, toggleVars, toast, nav>>
    /\ UNCHANGED <<subs, orphans, appVars>>

\* Variant: the course is read with maybeSingle(); a missing course is no
\* error and fetchData goes on to the progress record.
FetchCourseMaybeSingle(s) ==
    /\ fetchPc[s] = "course"
    /\ routeId[s] \notin catalog
    /\ course' = SetState(s, course, NoCourse)
    /\ IF fetchUser[s] # NoUser
       THEN /\ fetchPc' = [fetchPc EXCEPT ![s] = "progress"]
            /\ UNCHANGED loading
       ELSE /\ fetchPc' = [fetchPc EXCEPT ![s] = "none"]
            /\ loading' = SetState(s, loading, FALSE)
    /\ UNCHANGED <<nEvents, storeVars, clock, authUid, mounted, routeId, user, userCourse,
                   updating, fetchUser, toggleVars, toast, nav>>
    /\ UNCHANGED <<subs, orphans, appVars>>

\* fetchData: .single() found no course: throw courseError; catch: toast and
\* navigate("/"); finally: setLoading(false).
FetchCourseError(s) ==
    /\ fetchPc[s] = "course"
    /\ routeId[s] \notin catalog
    /\ toast' = [toast EXCEPT ![s] = "NotFound"]
    /\ nav' = [nav EXCEPT ![s] = "/"]
    /\ loading' = SetState(s, loading, FALSE)
    /\ mounted' = [mounted EXCEPT ![s] = FALSE]
    /\ fetchPc' = [fetchPc EXCEPT ![s] = "none"]
    /\ UNCHANGED <<nEvents, storeVars, clock, authUid, routeId, course, user, userCourse,
                   updating, fetchUser, toggleVars>>
    /\ subs' = IF mounted[s] THEN [subs EXCEPT ![s] = Unsubscribe(@)] ELSE subs
    /\ UNCHANGED <<orphans, appVars>>

\* fetchData: the user_courses read; setUserCourse(userCourseData); finally.
FetchProgress(s) ==
    /\ fetchPc[s] = "progress"
    /\ userCourse' = SetState(s, userCourse,
                              SelectProgress(rows, authUid[s], fetchUser[s], routeId[s]))
    /\ loading' = SetState(s, loading, FALSE)
    /\ fetchPc' = [fetchPc EXCEPT ![s] = "none"]
    /\ UNCHANGED <<nEvents, storeVars, clock, authUid, mounted, routeId, course, user,
                   updating, fetchUser, toggleVars, toast, nav>>
    /\ UNCHANGED <<subs, orphans, appVars>>

\* The user leaves the page ("Back to Courses"); cleanup unsubscribes the listener.
Leave(s) ==
    /\ mounted[s]
    /\ Event
    /\ mounted' = [mounted EXCEPT ![s] = FALSE]
    /\ nav' = [nav EXCEPT ![s] = "/courses"]
    /\ UNCHANGED <<storeVars, clock, authUid, routeId, viewVars, fetchVars,
                   toggleVars, toast>>
    /\ subs' = [subs EXCEPT ![s] = Unsubscribe(@)]
    /\ UNCHANGED <<orphans, appVars>>

\* The identity of the session changes (login, logout, session expiry); the
\* listener of a mounted component runs setUser(session?.user ?? null).
AuthChange(s, u) ==
    /\ u # authUid[s]
    /\ Event
    /\ authUid' = [authUid EXCEPT ![s] = u]
    /\ user' = IF ListenerRuns(subs[s]) THEN SetState(s, user, u) ELSE user
    /\ UNCHANGED <<storeVars, clock, mounted, routeId, course, userCourse,
                   loading, updating, fetchVars, toggleVars, toast, nav>>
    /\ UNCHANGED <<subs, orphans, appVars>>

\* --------------------------------------------------- handleToggleComplete
\* The handler is the entry point: it can be invoked on a rendered page whose
\* button is not disabled (disabled={updating}) and checks `user` itself.  (The
\* page renders the button only while `user` is set, so through the page's own
\* markup the handler's unauthenticated branch is not taken.)
CanToggle(s) ==
    /\ mounted[s]
    /\ ~loading[s]
    /\ ~updating[s]
    /\ Event

\* What the store holds for the session's principal and route when a call begins.
CallRecord(s, ops, outcome) ==
    [ops |-> ops, outcome |-> outcome, muts |-> 0,
     noRecord |-> ~\E r \in rows : r.user_id = user[s] /\ r.course_id = routeId[s],
     stored |-> RowById(rows, userCourse[s].id).completed,
     before |-> userCourse[s], principal |-> user[s], courseId |-> routeId[s],
     error |-> ""]

\* Variant: the guard's return is missing and the insert path runs.
ToggleUnauthenticatedNoReturn(s) ==
    /\ CanToggle(s)
    /\ user[s] = NoUser
    /\ toast' = [toast EXCEPT ![s] = "Authentication required"]
    /\ nav' = [nav EXCEPT ![s] = "/auth"]
    /\ mounted' = [mounted EXCEPT ![s] = FALSE]
    /\ clock' = clock + 1
    /\ req' = [req EXCEPT ![s] = InsertRequest(user[s], routeId[s], authUid[s], clock)]
    /\ togglePc' = [togglePc EXCEPT ![s] = "sent"]
    /\ call' = [call EXCEPT ![s] = CallRecord(s, <<"insert">>, "unauthenticated")]
    /\ UNCHANGED <<storeVars, authUid, routeId, viewVars, fetchVars, resp, nSucc>>
    /\ subs' = [subs EXCEPT ![s] = Unsubscribe(@)]
    /\ UNCHANGED <<orphans, appVars>>

\* if (!user) { toast(...); navigate("/auth"); return; }
ToggleUnauthenticated(s) ==
    /\ CanToggle(s)
    /\ user[s] = NoUser
    /\ toast' = [toast EXCEPT ![s] = "Authentication required"]
    /\ nav' = [nav EXCEPT ![s] = "/auth"]
    /\ mounted' = [mounted EXCEPT ![s] = FALSE]
    /\ call' = [call EXCEPT ![s] = CallRecord(s, <<>>, "unauthenticated")]
    /\ UNCHANGED <<storeVars, clock, authUid, routeId, viewVars, fetchVars,
                   togglePc, req, resp, nSucc>>
    /\ subs' = [subs EXCEPT ![s] = Unsubscribe(@)]
    /\ UNCHANGED <<orphans, appVars>>

\* setUpdating(true); if (userCourse) await ...update(...).eq("id", userCourse.id)
ToggleSendUpdate(s) ==
    /\ CanToggle(s)
    /\ user[s] # NoUser
    /\ userCourse[s] # NullRow
    /\ clock' = clock + 1
    /\ updating' = [updating EXCEPT ![s] = TRUE]
    /\ req' = [req EXCEPT ![s] = UpdateRequest(userCourse[s], authUid[s], clock)]
    /\ togglePc' = [togglePc EXCEPT ![s] = "sent"]
    /\ call' = [call EXCEPT ![s] = CallRecord(s, <<"update">>, "pending")]
    /\ UNCHANGED <<storeVars, authUid, mounted, routeId, course, user,
                   userCourse, loading, fetchVars, resp, nSucc, toast, nav>>
    /\ UNCHANGED <<subs, orphans, appVars>>

\* setUpdating(true); else await ...insert({...}).select().single()
ToggleSendInsert(s) ==
    /\ CanToggle(s)
    /\ user[s] # NoUser
    /\ userCourse[s] = NullRow
    /\ clock' = clock + 1
    /\ updating' = [updating EXCEPT ![s] = TRUE]
    /\ req' = [req EXCEPT ![s] = InsertRequest(user[s], routeId[s], authUid[s], clock)]
    /\ togglePc' = [togglePc EXCEPT ![s] = "sent"]
    /\ call' = [call EXCEPT ![s] = CallRecord(s, <<"insert">>, "pending")]
    /\ UNCHANGED <<storeVars, authUid, mounted, routeId, course, user,
                   userCourse, loading, fetchVars, resp, nSucc, toast, nav>>
    /\ UNCHANGED <<subs, orphans, appVars>>

\* One more toggle of principal u on course c was answered without error.
CountSuccess(n, u, c) ==
    IF u \in Users /\ c \in Courses
    THEN [n EXCEPT ![u] = [@ EXCEPT ![c] = @ + 1]]
    ELSE n

\* The store runs the UPDATE: the rows that pass the policy are written; a
\* statement that matches no row is no error.
StoreUpdate(s) ==
    /\ togglePc[s] = "sent"
    /\ req[s].op = "update"
    /\ rows' = ApplyUpdate(rows, req[s])
    /\ resp' = [resp EXCEPT ![s] = [error |-> "", data |-> NullRow]]
    /\ call' = [call EXCEPT ![s].muts = IF UpdateTargets(rows, req[s]) # {}
                                        THEN @ + 1 ELSE @]
    /\ nSucc' = CountSuccess(nSucc, call[s].principal, call[s].courseId)
    /\ togglePc' = [togglePc EXCEPT ![s] = "replied"]
    /\ UNCHANGED <<nEvents, nextId, clock, authUid, mounted, routeId, viewVars, fetchVars,
                   req, toast, nav>>
    /\ UNCHANGED <<subs, orphans, appVars>>

\* The store runs the INSERT ... RETURNING: the new row passes WITH CHECK and
\* the unique constraint, or the statement fails and nothing is written.
StoreInsert(s) ==
    /\ togglePc[s] = "sent"
    /\ req[s].op = "insert"
    /\ LET new == InsertedRow(req[s], nextId + 1)
           err == IF ~PolicyInsert(req[s].uid, new) THEN "Forbidden"
                  ELSE IF UniqueViolation(rows, new.user_id, new.course_id)
                       THEN "Conflict" ELSE ""
       IN IF err = ""
          THEN /\ rows' = rows \cup {new}
               /\ nextId' = nextId + 1
               /\ resp' = [resp EXCEPT ![s] = [error |-> "", data |-> new]]
               /\ call' = [call EXCEPT ![s].muts = @ + 1]
               /\ nSucc' = CountSuccess(nSucc, call[s].principal, call[s].courseId)
          ELSE /\ resp' = [resp EXCEPT ![s] = [error |-> err, data |-> NullRow]]
               /\ UNCHANGED <<rows, nextId, call, nSucc>>
    /\ togglePc' = [togglePc EXCEPT ![s] = "replied"]
    /\ UNCHANGED <<nEvents, clock, authUid, mounted, routeId, viewVars, fetchVars,
                   req, toast, nav>>
    /\ UNCHANGED <<subs, orphans, appVars>>

\* The store cannot be reached: the request fails and nothing is written.
StoreUnavailable(s) ==
    /\ togglePc[s] = "sent"
    /\ Event
    /\ resp' = [resp EXCEPT ![s] = [error |-> "StoreUnavailable", data |-> NullRow]]
    /\ togglePc' = [togglePc EXCEPT ![s] = "replied"]
    /\ UNCHANGED <<storeVars, clock, authUid, mounted, routeId, viewVars,
                   fetchVars, req, call, nSucc, toast, nav>>
    /\ UNCHANGED <<subs, orphans, appVars>>

\* The view the handler sets after a successful store call.
ViewAfterSuccess(q, r, now) ==
    IF q.op = "update" THEN LocalMirror(q.uc, now) ELSE r.data

\* if (error) throw error; setUserCourse(...); toast(success)
\* finally: setUpdating(false)
ToggleSuccess(s) ==
    /\ togglePc[s] = "replied"
    /\ resp[s].error = ""
    /\ userCourse' = SetState(s, userCourse, ViewAfterSuccess(req[s], resp[s], clock))
    /\ clock' = IF req[s].op = "update" THEN clock + 1 ELSE clock
    /\ toast' = [toast EXCEPT ![s] = IF req[s].uc.completed THEN "Marked as incomplete"
                                     ELSE "Congratulations!"]
    /\ updating' = SetState(s, updating, FALSE)
    /\ call' = [call EXCEPT ![s].outcome = "success"]
    /\ togglePc' = [togglePc EXCEPT ![s] = "idle"]
    /\ req' = [req EXCEPT ![s] = NoRequest]
    /\ resp' = [resp EXCEPT ![s] = NoResponse]
    /\ UNCHANGED <<nEvents, storeVars, authUid, mounted, routeId, course, user,
                   loading, fetchVars, nSucc, nav>>
    /\ UNCHANGED <<subs, orphans, appVars>>

\* Variant: the handler has no finally block.
ToggleErrorNoFinally(s) ==
    /\ togglePc[s] = "replied"
    /\ resp[s].error # ""
    /\ toast' = [toast EXCEPT ![s] = resp[s].error]
    /\ UNCHANGED updating
    /\ call' = [call EXCEPT ![s].outcome = "error", ![s].error = resp[s].error]
    /\ togglePc' = [togglePc EXCEPT ![s] = "idle"]
    /\ req' = [req EXCEPT ![s] = NoRequest]
    /\ resp' = [resp EXCEPT ![s] = NoResponse]
    /\ UNCHANGED <<nEvents, storeVars, clock, authUid, mounted, routeId, course, user,
                   userCourse, loading, fetchVars, nSucc, nav>>
    /\ UNCHANGED <<subs, orphans, appVars>>

\* catch (error): toast({title: "Error", description: error.message})
\* finally: setUpdating(false)
ToggleError(s) ==
    /\ togglePc[s] = "replied"
    /\ resp[s].error # ""
    /\ toast' = [toast EXCEPT ![s] = resp[s].error]
    /\ updating' = SetState(s, updating, FALSE)
    /\ call' = [call EXCEPT ![s].outcome = "error", ![s].error = resp[s].error]
    /\ togglePc' = [togglePc EXCEPT ![s] = "idle"]
    /\ req' = [req EXCEPT ![s] = NoRequest]
    /\ resp' = [resp EXCEPT ![s] = NoResponse]
    /\ UNCHANGED <<nEvents, storeVars, clock, authUid, mounted, routeId, course, user,
                   userCourse, loading, fetchVars, nSucc, nav>>
    /\ UNCHANGED <<subs, orphans, appVars>>

\* The answer of the store to the request of an orphaned toggle.
OrphanAnswer(o) ==
    IF o.pc = "replied" THEN o.resp
    ELSE IF o.req.op = "update" THEN [error |-> "", data |-> NullRow]
    ELSE LET new == InsertedRow(o.req, nextId + 1)
         IN IF ~PolicyInsert(o.req.uid, new) THEN [error |-> "Forbidden", data |-> NullRow]
            ELSE IF UniqueViolation(rows, new.user_id, new.course_id)
                 THEN [error |-> "Conflict", data |-> NullRow]
                 ELSE [error |-> "", data |-> new]

\* A toggle whose component was replaced runs to its end: the store executes
\* the request if it has not yet, and the handler's continuation runs; its
\* state setters belong to the former instance and change nothing, the toast
\* is shown.
OrphanComplete(s) ==
    \E o \in orphans :
    /\ o.s = s
    /\ LET a == OrphanAnswer(o)
           run == o.pc = "sent"
       IN /\ rows' = IF ~run THEN rows
                     ELSE IF o.req.op = "update" THEN ApplyUpdate(rows, o.req)
                     ELSE IF a.error = "" THEN rows \cup {a.data} ELSE rows
          /\ nextId' = IF run /\ o.req.op = "insert" /\ a.error = ""
                       THEN nextId + 1 ELSE nextId
          /\ nSucc' = IF run /\ a.error = ""
                      THEN CountSuccess(nSucc, o.principal, o.courseId) ELSE nSucc
          /\ clock' = IF a.error = "" /\ o.req.op = "update" THEN clock + 1 ELSE clock
          /\ toast' = [toast EXCEPT ![o.s] =
                          IF a.error # "" THEN a.error
                          ELSE IF o.req.uc.completed THEN "Marked as incomplete"
                          ELSE "Congratulations!"]
    /\ orphans' = orphans \ {o}
    /\ UNCHANGED <<nEvents, authUid, mounted, routeId, viewVars, fetchVars, togglePc,
                   req, resp, call, nav, subs>>
    /\ UNCHANGED appVars

\* ------------------------------------------------ CourseDetail, continued
\* The store cannot be reached: the user_courses read is answered with
\* {data: null, error}.
FetchProgressUnavailable(s) ==
    /\ fetchPc[s] = "progress"
    /\ Event
    /\ fetchPc' = [fetchPc EXCEPT ![s] = "progressFailed"]
    /\ UNCHANGED <<storeVars, clock, authUid, mounted, routeId, viewVars, fetchUser,
                   toggleVars, toast, nav>>
    /\ UNCHANGED <<subs, orphans, appVars>>

\* fetchData after the failed user_courses read: only `data` is destructured,
\* it is null: setUserCourse(null); finally: setLoading(false).
FetchProgressError(s) ==
    /\ fetchPc[s] = "progressFailed"
    /\ userCourse' = SetState(s, userCourse, NullRow)
    /\ loading' = SetState(s, loading, FALSE)
    /\ fetchPc' = [fetchPc EXCEPT ![s] = "none"]
    /\ UNCHANGED <<nEvents, storeVars, clock, authUid, mounted, routeId, course, user,
                   updating, fetchUser, toggleVars, toast, nav>>
    /\ UNCHANGED <<subs, orphans, appVars>>

\* The route moves from /course/<a> to /course/<c> and keeps the CourseDetail
\* it rendered: no state is reset; the effect's dependency id changed, so its
\* cleanup unsubscribes the listener and the effect runs again: a new
\* fetchData starts and a new listener is subscribed.  A fetchData that was
\* pending goes on with the id of its closure.
ChangeRoute(s, c) ==
    /\ mounted[s]
    /\ c # routeId[s]
    /\ stale[s] = NoFetch
    /\ Event
    /\ routeId' = [routeId EXCEPT ![s] = c]
    /\ stale' = [stale EXCEPT ![s] =
                    IF fetchPc[s] = "none" THEN NoFetch
                    ELSE [pc |-> fetchPc[s], id |-> routeId[s],
                          fetchUser |-> fetchUser[s]]]
    /\ fetchPc' = [fetchPc EXCEPT ![s] = "getUser"]
    /\ subs' = [subs EXCEPT ![s] = Subscribe(Unsubscribe(@))]
    /\ UNCHANGED <<storeVars, clock, authUid, mounted, viewVars, fetchUser,
                   toggleVars, toast, nav, orphans, catalog, navbar, list, route, authPage>>

\* The earlier fetchData: await supabase.auth.getUser(); setUser(currentUser)
StaleGetUser(s) ==
    /\ stale[s].pc = "getUser"
    /\ stale' = [stale EXCEPT ![s].fetchUser = authUid[s], ![s].pc = "course"]
    /\ user' = SetState(s, user, authUid[s])
    /\ UNCHANGED <<nEvents, storeVars, clock, authUid, mounted, routeId, course,
                   userCourse, loading, updating, fetchVars, toggleVars, toast, nav,
                   subs, orphans, catalog, navbar, list, route, authPage>>

\* The earlier fetchData: the courses read for its id succeeded;
\* setCourse(courseData); without a currentUser: finally: setLoading(false).
StaleCourse(s) ==
    /\ stale[s].pc = "course"
    /\ stale[s].id \in catalog
    /\ course' = SetState(s, course, stale[s].id)
    /\ IF stale[s].fetchUser # NoUser
       THEN /\ stale' = [stale EXCEPT ![s].pc = "progress"]
            /\ UNCHANGED loading
       ELSE /\ stale' = [stale EXCEPT ![s] = NoFetch]
            /\ loading' = SetState(s, loading, FALSE)
    /\ UNCHANGED <<nEvents, storeVars, clock, authUid, mounted, routeId, user,
                   userCourse, updating, fetchVars, toggleVars, toast, nav, subs,
                   orphans, catalog, navbar, list, route, authPage>>

\* The earlier fetchData: .single() found no course for its id: catch: toast
\* and navigate("/"); finally: setLoading(false).
StaleCourseError(s) ==
    /\ stale[s].pc = "course"
    /\ stale[s].id \notin catalog
    /\ toast' = [toast EXCEPT ![s] = "NotFound"]
    /\ nav' = [nav EXCEPT ![s] = "/"]
    /\ loading' = SetState(s, loading, FALSE)
    /\ mounted' = [mounted EXCEPT ![s] = FALSE]
    /\ stale' = [stale EXCEPT ![s] = NoFetch]
    /\ subs' = IF mounted[s] THEN [subs EXCEPT ![s] = Unsubscribe(@)] ELSE subs
    /\ UNCHANGED <<nEvents, storeVars, clock, authUid, routeId, course, user,
                   userCourse, updating, fetchVars, toggleVars, orphans, catalog, navbar,
                   list, route, authPage>>

\* The earlier fetchData: the user_courses read for its id;
\* setUserCourse(userCourseData); finally: setLoading(false).
StaleProgress(s) ==
    /\ stale[s].pc = "progress"
    /\ userCourse' = SetState(s, userCourse,
                              SelectProgress(rows, authUid[s], stale[s].fetchUser,
                                             stale[s].id))
    /\ loading' = SetState(s, loading, FALSE)
    /\ stale' = [stale EXCEPT ![s] = NoFetch]
    /\ UNCHANGED <<nEvents, storeVars, clock, authUid, mounted, routeId, course, user,
                   updating, fetchVars, toggleVars, toast, nav, subs, orphans,
                   catalog, navbar, list, route, authPage>>

\* ------------------------------------------------------------ CourseList
\* The client whose CourseList, ProtectedRoute and Auth page are modelled.
Client == CHOOSE s \in Sessions : TRUE

\* A state setter of CourseList; nothing changes once it is unmounted.
ListSet(l, new) == IF l.mounted THEN new ELSE l

\* /courses renders a new CourseList: the useState initial values; the effect
\* starts fetchData and subscribes the auth listener.
ListMount ==
    /\ ~list.mounted
    /\ list.pc = "none"
    /\ Event
    /\ list' = [ListInit EXCEPT !.mounted = TRUE, !.pc = "getUser",
                                 !.subs = Subscribe(list.subs),
                                 !.toast = list.toast]
    /\ UNCHANGED <<storeVars, clock, authUid, detailVars, catalog, stale, navbar, route, authPage>>

\* The page is left; the effect's cleanup runs subscription.unsubscribe().
ListUnmount ==
    /\ list.mounted
    /\ Event
    /\ list' = [list EXCEPT !.mounted = FALSE, !.subs = Unsubscribe(@)]
    /\ UNCHANGED <<storeVars, clock, authUid, detailVars, catalog, stale, navbar, route, authPage>>

\* fetchData: await supabase.auth.getUser(); setUser(currentUser)
ListGetUser ==
    /\ list.pc = "getUser"
    /\ list' = [ListSet(list, [list EXCEPT !.user = authUid[Client]])
                    EXCEPT !.fetchUser = authUid[Client], !.pc = "courses"]
    /\ UNCHANGED <<nEvents, storeVars, clock, authUid, detailVars, catalog, stale, navbar, route,
                   authPage>>

\* fetchData: the courses read succeeded; setCourses(coursesData || []); with a
\* currentUser the user_courses read is issued, without one the function is
\* done (finally: setLoading(false)).
ListCourses ==
    /\ list.pc = "courses"
    /\ list' = IF list.fetchUser # NoUser
               THEN [ListSet(list, [list EXCEPT !.courses = catalog])
                        EXCEPT !.pc = "progress", !.queried = TRUE]
               ELSE [ListSet(list, [list EXCEPT !.courses = catalog,
                                                !.loading = FALSE])
                        EXCEPT !.pc = "none"]
    /\ UNCHANGED <<nEvents, storeVars, clock, authUid, detailVars, catalog, stale, navbar, route,
                   authPage>>

\* The store cannot be reached: the courses read is answered with
\* {data: null, error}.
ListCoursesUnavailable ==
    /\ list.pc = "courses"
    /\ Event
    /\ list' = [list EXCEPT !.pc = "coursesFailed"]
    /\ UNCHANGED <<storeVars, clock, authUid, detailVars, catalog, stale, navbar, route, authPage>>

\* Variant: coursesError is not thrown; setCourses(coursesData || []) and
\* fetchData goes on.
ListCoursesErrorIgnored ==
    /\ list.pc = "coursesFailed"
    /\ list' = IF list.fetchUser # NoUser
               THEN [ListSet(list, [list EXCEPT !.courses = {}])
                        EXCEPT !.pc = "progress", !.queried = TRUE]
               ELSE [ListSet(list, [list EXCEPT !.courses = {}, !.loading = FALSE])
                        EXCEPT !.pc = "none"]
    /\ UNCHANGED <<nEvents, storeVars, clock, authUid, detailVars, catalog, stale, navbar, route,
                   authPage>>

\* fetchData after the failed courses read: throw coursesError; catch: toast;
\* finally: setLoading(false).
ListCoursesError ==
    /\ list.pc = "coursesFailed"
    /\ list' = [ListSet(list, [list EXCEPT !.loading = FALSE])
                    EXCEPT !.pc = "none", !.toast = "StoreUnavailable"]
    /\ UNCHANGED <<nEvents, storeVars, clock, authUid, detailVars, catalog, stale, navbar, route,
                   authPage>>

\* .from("user_courses").select("*").eq("user_id", currentUser.id), issued with
\* a JWT of principal uid.
SelectRecords(rs, uid, u) == {r \in rs : r.user_id = u /\ PolicySelect(uid, r)}

\* fetchData: the user_courses read succeeded; setUserCourses(data || []);
\* finally: setLoading(false).
ListProgress ==
    /\ list.pc = "progress"
    /\ list' = [ListSet(list, [list EXCEPT
                        !.userCourses = SelectRecords(rows, authUid[Client], list.fetchUser),
                        !.loading = FALSE])
                    EXCEPT !.pc = "none"]
    /\ UNCHANGED <<nEvents, storeVars, clock, authUid, detailVars, catalog, stale, navbar, route,
                   authPage>>

\* The store cannot be reached: the user_courses read is answered with
\* {data: null, error}.
ListProgressUnavailable ==
    /\ list.pc = "progress"
    /\ Event
    /\ list' = [list EXCEPT !.pc = "progressFailed"]
    /\ UNCHANGED <<storeVars, clock, authUid, detailVars, catalog, stale, navbar, route, authPage>>

\* fetchData after the failed user_courses read: throw userCoursesError;
\* catch: toast; finally: setLoading(false).
ListProgressError ==
    /\ list.pc = "progressFailed"
    /\ list' = [ListSet(list, [list EXCEPT !.loading = FALSE])
                    EXCEPT !.pc = "none", !.toast = "StoreUnavailable"]
    /\ UNCHANGED <<nEvents, storeVars, clock, authUid, detailVars, catalog, stale, navbar, route,
                   authPage>>

\* isCompleted: userCourses.some(uc => uc.course_id === courseId && uc.completed)
isCompleted(l, courseId) ==
    \E uc \in l.userCourses : uc.course_id = courseId /\ uc.completed

\* The cards CourseList renders: one per fetched course once loading is over.
ShownCards(l) == IF l.mounted /\ ~l.loading THEN l.courses ELSE {}

\* CourseCard: {completed && <badge>} with completed = isCompleted(course.id)
Badge(l, courseId) == courseId \in ShownCards(l) /\ isCompleted(l, courseId)

\* CourseList's auth listener: setUser(session?.user ?? null)
Notified(l, u) ==
    IF ListenerRuns(l.subs) THEN ListSet(l, [l EXCEPT !.user = u]) ELSE l

\* -------------------------------------------------------- ProtectedRoute
\* A state setter of ProtectedRoute; nothing changes once it is unmounted.
RouteSet(r, new) == IF r.mounted THEN new ELSE r

\* What ProtectedRoute renders.
RouteView(r) ==
    IF ~r.mounted THEN "none"
    ELSE IF r.loading THEN "loading"
    ELSE IF r.user = NoUser THEN "redirect"
    ELSE "children"

\* The render of <Navigate to="/auth" replace />: its effect leaves the
\* route, which unmounts the component and runs the effect's cleanup.
Committed(r) ==
    IF RouteView(r) = "redirect"
    THEN [r EXCEPT !.mounted = FALSE, !.subs = Unsubscribe(@), !.nav = "/auth"]
    ELSE r

\* A protected route is opened: the useState initial values; the effect
\* starts checkUser and subscribes the auth listener.
RouteMount ==
    /\ ~route.mounted
    /\ route.pc = "none"
    /\ Event
    /\ route' = [RouteInit EXCEPT !.mounted = TRUE, !.pc = "getUser",
                                  !.subs = Subscribe(route.subs)]
    /\ UNCHANGED <<storeVars, clock, authUid, detailVars, catalog, stale, navbar, list, authPage>>

\* The visitor leaves the protected route; cleanup unsubscribes the listener.
RouteUnmount ==
    /\ route.mounted
    /\ Event
    /\ route' = [route EXCEPT !.mounted = FALSE, !.subs = Unsubscribe(@)]
    /\ UNCHANGED <<storeVars, clock, authUid, detailVars, catalog, stale, navbar, list, authPage>>

\* checkUser: supabase.auth.getUser() resolves with the client's identity.
RouteGetUser ==
    /\ route.pc = "getUser"
    /\ route' = [route EXCEPT !.got = authUid[Client], !.pc = "resume"]
    /\ UNCHANGED <<nEvents, storeVars, clock, authUid, detailVars, catalog, stale, navbar, list,
                   authPage>>

\* checkUser: supabase.auth.getUser() fails and resolves with
\* { data: { user: null }, error }; the error is not read.
RouteGetUserError ==
    /\ route.pc = "getUser"
    /\ route' = [route EXCEPT !.got = NoUser, !.pc = "resume"]
    /\ UNCHANGED <<nEvents, storeVars, clock, authUid, detailVars, catalog, stale, navbar, list,
                   authPage>>

\* checkUser: the promise of supabase.auth.getUser() rejects; the await throws,
\* nothing catches it and checkUser ends before its setState calls.
RouteGetUserRejected ==
    /\ route.pc = "getUser"
    /\ route' = [route EXCEPT !.pc = "none"]
    /\ UNCHANGED <<nEvents, storeVars, clock, authUid, detailVars, catalog, stale, navbar, list,
                   authPage>>

\* checkUser after the await: setUser(currentUser); setLoading(false)
RouteCheckUser ==
    /\ route.pc = "resume"
    /\ route' = [RouteSet(route, [route EXCEPT !.user = route.got,
                                               !.loading = FALSE,
                                               !.answered = TRUE])
                    EXCEPT !.pc = "none"]
    /\ UNCHANGED <<nEvents, storeVars, clock, authUid, detailVars, catalog, stale, navbar, list,
                   authPage>>

\* ProtectedRoute's auth listener: setUser(session?.user ?? null);
\* setLoading(false)
RouteNotified(r, u) ==
    IF ListenerRuns(r.subs)
    THEN RouteSet(r, [r EXCEPT !.user = u, !.loading = FALSE,
                              !.answered = TRUE, !.signedOut = (u = NoUser)])
    ELSE r

\* The state updates are rendered later, in a task of their own: with no user
\* and loading false the component returns <Navigate to="/auth" replace />.
RouteRedirect ==
    /\ RouteView(route) = "redirect"
    /\ route' = Committed(route)
    /\ UNCHANGED <<nEvents, storeVars, clock, authUid, detailVars, catalog, stale, navbar, list,
                   authPage>>

\* ------------------------------------------------- the client's identity

\* The identity of the client changes; every subscribed listener of the
\* client runs.
ClientAuthChange(u) ==
    /\ u # authUid[Client]
    /\ Event
    /\ authUid' = [authUid EXCEPT ![Client] = u]
    /\ user' = IF ListenerRuns(subs[Client]) THEN SetState(Client, user, u) ELSE user
    /\ list' = Notified(list, u)
    /\ route' = RouteNotified(route, u)
    /\ UNCHANGED <<storeVars, clock, mounted, routeId, course, userCourse, loading,
                   updating, fetchVars, toggleVars, toast, nav, subs, orphans,
                   catalog, stale, navbar, authPage>>

\* ------------------------------------------------------------- the Auth page
\* The code units the entered strings are made of: a letter, the at sign, the
\* dot and the blank.
EmailChars == {"a", "@", ".", " "}
PasswordChars == {"x"}

\* The strings over S of m to n code units.
Strings(S, m, n) == UNION {[1..k -> S] : k \in m..n}

\* The entered emails, and the entered passwords: some too short, some not.
Emails == Strings(EmailChars, 0, MaxEmailLen)
Passwords == Strings(PasswordChars, MinPasswordLen - 2, MaxPasswordLen)

\* String.prototype.trim(): the string without its leading and trailing blanks.
Trim(e) ==
    LET ink == {i \in 1..Len(e) : e[i] # " "}
    IN IF ink = {} THEN <<>>
       ELSE SubSeq(e, CHOOSE i \in ink : \A j \in ink : i <= j,
                      CHOOSE i \in ink : \A j \in ink : j <= i)

\* The classes of zod's email pattern, as far as EmailChars goes:
\* [A-Z0-9_+-] (end of the local part), [A-Z0-9_'+\-\.] (local part),
\* [A-Z0-9] and [A-Z0-9\-] (domain labels), [A-Z] (last label).
WordChars == {"a"}
LocalChars == WordChars \cup {"."}

\* Positions of the code unit c in e.
Positions(e, c) == {i \in 1..Len(e) : e[i] = c}

\* z.string().email(): zod's email pattern
\*   ^(?!\.)(?!.*\.\.)([A-Z0-9_'+\-\.]*)[A-Z0-9_+-]@([A-Z0-9][A-Z0-9\-]*\.)+[A-Z]{2,}$
\* (case-insensitive), matched against the string as entered.
IsEmail(e) ==
    /\ Cardinality(Positions(e, "@")) = 1
    /\ LET at == CHOOSE i \in Positions(e, "@") : TRUE
           dots == {i \in Positions(e, ".") : i > at}
       IN /\ at > 1
          /\ e[1] # "."
          /\ \A i \in 1..(Len(e) - 1) : ~(e[i] = "." /\ e[i + 1] = ".")
          /\ \A i \in 1..(at - 1) : e[i] \in LocalChars
          /\ e[at - 1] \in WordChars
          /\ at < Len(e)
          /\ e[at + 1] \in WordChars
          /\ \A i \in (at + 1)..Len(e) : e[i] \in WordChars \cup {"."}
          /\ \A i \in dots : i < Len(e) /\ e[i + 1] \in WordChars
          /\ dots # {}
          /\ \A i \in dots : (\A j \in dots : j <= i) => Len(e) - i >= MinTldLen

\* Variant: only the email is validated.
validateEmailOnly(e, p) == IsEmail(e)

\* validateInputs: emailSchema.parse(email); passwordSchema.parse(password)
validateInputs(e, p) == IsEmail(e) /\ Len(p) >= MinPasswordLen

\* The form is submitted on a tab ("signUp" or "login"): handleSignUp and
\* handleLogin up to their await.  A failed validation shows a toast and
\* returns; otherwise setLoading(true) and the request goes to the provider
\* with email.trim().
AuthSubmit(kind) ==
    /\ authPage.nav = "/auth"
    /\ ~authPage.loading
    /\ authPage' =
          IF validateInputs(authPage.email, authPage.password)
          THEN [authPage EXCEPT !.loading = TRUE, !.pc = kind,
                                !.sent = [kind |-> kind,
                                          email |-> Trim(authPage.email),
                                          password |-> authPage.password]]
          ELSE [authPage EXCEPT !.toast = "Validation Error"]
    /\ UNCHANGED <<nEvents, storeVars, clock, authUid, detailVars, catalog, stale, navbar, list, route>>

\* The provider accepts the request.  handleSignUp: toast "Success!";
\* handleLogin: the client is signed in as u, the listeners are notified and
\* the handler navigates to /courses; finally: setLoading(false).
AuthAccepted(u) ==
    /\ authPage.pc # "none"
    /\ IF authPage.pc = "login"
       THEN /\ authPage' = [authPage EXCEPT !.pc = "none", !.loading = FALSE,
                                            !.nav = "/courses"]
            /\ authUid' = [authUid EXCEPT ![Client] = u]
            /\ user' = IF ListenerRuns(subs[Client])
                       THEN SetState(Client, user, u) ELSE user
            /\ list' = Notified(list, u)
            /\ route' = RouteNotified(route, u)
       ELSE /\ authPage' = [authPage EXCEPT !.pc = "none", !.loading = FALSE,
                                            !.toast = "Success!"]
            /\ UNCHANGED <<authUid, user, list, route>>
    /\ UNCHANGED <<nEvents, storeVars, clock, mounted, routeId, course, userCourse,
                   loading, updating, fetchVars, toggleVars, toast, nav, subs,
                   orphans, catalog, stale, navbar>>

\* Variant: navigate("/courses") stands after the try statement and runs on
\* an error too.
AuthRejectedNavigates ==
    /\ authPage.pc # "none"
    /\ authPage' = [authPage EXCEPT !.pc = "none", !.loading = FALSE,
                                    !.nav = IF authPage.pc = "login"
                                            THEN "/courses" ELSE @,
                                    !.toast = IF authPage.pc = "login"
                                              THEN "Login failed"
                                              ELSE "Sign up failed"]
    /\ UNCHANGED <<nEvents, storeVars, clock, authUid, detailVars, catalog, stale, navbar, list, route>>

\* The provider rejects the request: catch: toast; finally: setLoading(false).
AuthRejected ==
    /\ authPage.pc # "none"
    /\ authPage' = [authPage EXCEPT !.pc = "none", !.loading = FALSE,
                                    !.toast = IF authPage.pc = "login"
                                              THEN "Login failed"
                                              ELSE "Sign up failed"]
    /\ UNCHANGED <<nEvents, storeVars, clock, authUid, detailVars, catalog, stale, navbar, list, route>>

\* A signed-out visitor has opened /auth and filled in the form.
InitAuth ==
    /\ InitState
    /\ navbar = NavbarInit
    /\ catalog = Courses
    /\ authUid = [s \in Sessions |-> NoUser]
    /\ \E e \in Emails, p \in Passwords :
          authPage = [AuthPageInit EXCEPT !.email = e, !.password = p]

NextAuth ==
    \/ \E kind \in {"signUp", "login"} : AuthSubmit(kind)
    \/ \E u \in Users : AuthAccepted(u)
    \/ AuthRejected

SpecAuth == InitAuth /\ [][NextAuth]_vars

\* The catalogue is any part of the sample courses.
InitClient ==
    /\ InitState
    /\ navbar = NavbarInit
    /\ catalog \in SUBSET Courses
    /\ authUid \in [Sessions -> Users]
    /\ authPage = AuthPageInit

\* One client with a CourseDetail page and a CourseList page (two tabs).
NextClient ==
    \/ \E c \in RouteIds : Mount(Client, c)
    \/ FetchGetUser(Client)
    \/ FetchCourse(Client)
    \/ FetchCourseError(Client)
    \/ FetchProgress(Client)
    \/ OrphanComplete(Client)
    \/ FetchProgressUnavailable(Client)
    \/ FetchProgressError(Client)
    \/ Leave(Client)
    \/ \E u \in Principals : ClientAuthChange(u)
    \/ ToggleUnauthenticated(Client)
    \/ ToggleSendUpdate(Client)
    \/ ToggleSendInsert(Client)
    \/ StoreUpdate(Client)
    \/ StoreInsert(Client)
    \/ StoreUnavailable(Client)
    \/ ToggleSuccess(Client)
    \/ ToggleError(Client)
    \/ ListMount
    \/ ListUnmount
    \/ ListGetUser
    \/ ListCourses
    \/ ListCoursesUnavailable
    \/ ListCoursesError
    \/ ListProgress
    \/ ListProgressUnavailable
    \/ ListProgressError
    \/ RouteMount
    \/ RouteUnmount
    \/ RouteGetUser
    \/ RouteCheckUser
    \/ RouteRedirect

SpecClient == InitClient /\ [][NextClient]_vars

Next ==
    \/ \E s \in Sessions, c \in RouteIds : Mount(s, c)
    \/ \E s \in Sessions : FetchGetUser(s)
    \/ \E s \in Sessions : FetchCourse(s)
    \/ \E s \in Sessions : FetchProgress(s)
    \/ \E s \in Sessions : Leave(s)
    \/ \E s \in Sessions, u \in Principals : AuthChange(s, u)
    \/ \E s \in Sessions : ToggleUnauthenticated(s)
    \/ \E s \in Sessions : ToggleSendUpdate(s)
    \/ \E s \in Sessions : ToggleSendInsert(s)
    \/ \E s \in Sessions : StoreUpdate(s)
    \/ \E s \in Sessions : StoreInsert(s)
    \/ \E s \in Sessions : StoreUnavailable(s)
    \/ \E s \in Sessions : ToggleSuccess(s)
    \/ \E s \in Sessions : ToggleError(s)
    \/ \E s \in Sessions : OrphanComplete(s)

Spec == Init /\ [][Next]_vars


\* ------------------------------------------------------------ properties
RecordsOf(u, c) == {r \in rows : r.user_id = u /\ r.course_id = c}

Odd(n) == n % 2 = 1

\* C1: after n > 0 toggles of principal P on course C that were answered
\* without error, the stored record of (P, C) has completed = TRUE when n is
\* odd and completed = FALSE when n is even (stated of the pairs that have a
\* record).
C1_ToggleParity ==
    \A u \in Users, c \in Courses :
        nSucc[u][c] > 0 =>
            \A r \in RecordsOf(u, c) : r.completed = Odd(nSucc[u][c])

\* C2: a toggle that ends with Conflict shown to the caller has, after its
\* rejected insert, re-read the record and retried the update path once.
C2_ConflictRetried ==
    \A s \in Sessions :
        call[s].error = "Conflict" => call[s].ops = <<"insert", "select", "update">>

\* C3: when two sessions of one principal both toggle a course while the store
\* holds no record of it, then once both calls have resolved exactly one
\* record exists and both sessions' views show it completed.
C3_BothConverge ==
    \A s1, s2 \in Sessions :
        ( /\ s1 # s2
          /\ mounted[s1] /\ mounted[s2]
          /\ call[s1].noRecord /\ call[s2].noRecord
          /\ call[s1].principal = call[s2].principal
          /\ call[s1].courseId = call[s2].courseId
          /\ call[s1].outcome \in {"success", "error"}
          /\ call[s2].outcome \in {"success", "error"}
          /\ call[s1].error \in {"", "Conflict"}
          /\ call[s2].error \in {"", "Conflict"} )
        => /\ Cardinality(RecordsOf(call[s1].principal, call[s1].courseId)) = 1
           /\ userCourse[s1].completed
           /\ userCourse[s2].completed

\* C4: at most one record exists per (owning principal, course) pair.
C4_UniquePerPair ==
    \A u \in Users, c \in Courses : Cardinality(RecordsOf(u, c)) <= 1

\* Two sessions raced to create the record; the loser's insert was rejected.
C4_Witness ==
    \E s1, s2 \in Sessions :
        /\ s1 # s2
        /\ call[s1].error = "Conflict"
        /\ call[s2].ops = <<"insert">> /\ call[s2].outcome = "success"
        /\ Cardinality(RecordsOf(call[s1].principal, call[s1].courseId)) = 1

\* C5: every stored record has completed = TRUE iff completed_at is set, and
\* every write a toggle sends carries the two fields in agreement.
C5_CompletedIffStamped ==
    /\ \A r \in rows : r.completed <=> r.completed_at # 0
    /\ \A s \in Sessions :
           req[s].op # "none" => (req[s].completed <=> req[s].completed_at # 0)

\* A record was created completed and an update has set it back.
C5_Witness ==
    \E r \in rows, s \in Sessions :
        /\ ~r.completed /\ r.completed_at = 0
        /\ call[s].ops = <<"update">> /\ call[s].muts = 1

\* C6: the completed value an update of the record's owner writes is the
\* negation of the value the store held for that record when the call was
\* made.
C6_WritesNegationOfStored ==
    \A s \in Sessions :
        (togglePc[s] # "idle" /\ req[s].op = "update" /\ req[s].uc.user_id = req[s].uid)
            => req[s].completed = ~call[s].stored

\* C7: a toggle by a session without an authenticated principal issues no
\* store operation, leaves nothing pending, leaves userCourse as it was, shows
\* the sign-in prompt and navigates to /auth.
C7_UnauthenticatedNoEffect ==
    [][\A s \in Sessions :
          call'[s].outcome = "unauthenticated" =>
              /\ call'[s].ops = <<>> /\ call'[s].muts = 0
              /\ togglePc'[s] = "idle" /\ req'[s] = NoRequest
              /\ userCourse'[s] = call'[s].before
              /\ ~updating'[s]
              /\ nav'[s] = "/auth"
              /\ call[s].outcome # "unauthenticated"
                    => /\ toast'[s] = "Authentication required"
                       /\ UNCHANGED <<rows, orphans>>]_vars

\* A signed-out session that held a record has toggled.
C7_Witness ==
    \E s \in Sessions :
        /\ call[s].outcome = "unauthenticated"
        /\ call[s].before # NullRow
        /\ nav[s] = "/auth"
        /\ rows # {}

\* C8: a toggle that succeeded committed exactly one mutation, a toggle that
\* failed committed none.
C8_OneMutationPerSuccess ==
    \A s \in Sessions :
        /\ call[s].outcome = "success" => call[s].muts = 1
        /\ call[s].outcome = "error" => call[s].muts = 0

\* C9: an update that addresses a record of another principal is answered
\* with Forbidden.
C9_NonOwnerUpdateForbidden ==
    \A s \in Sessions :
        ( /\ togglePc[s] = "replied"
          /\ req[s].op = "update"
          /\ RowById(rows, req[s].id).user_id # req[s].uid )
        => resp[s].error = "Forbidden"

CreatedRows == {r \in rows' : RowById(rows, r.id) = NullRow}

\* The requests of the toggles that are pending at the store.
SentRequests ==
    {req[s] : s \in {x \in Sessions : togglePc[x] = "sent"}}
        \cup {o.req : o \in {x \in orphans : x.pc = "sent"}}

\* C11: a record is created only by the insert of a pending toggle whose view
\* held no record, for a pair the store has no record of, and it is created
\* completed with completed_at set; no step of a page load (CourseDetail's or
\* CourseList's fetchData) creates a record.
C11_CreatedLazilyAsCompleted ==
    [][\A r \in CreatedRows :
          /\ \E q \in SentRequests :
                /\ q \notin SentRequests'
                /\ q.op = "insert" /\ q.uc = NullRow
                /\ r.user_id = q.user_id /\ r.course_id = q.course_id
          /\ ~\E q \in rows : q.user_id = r.user_id /\ q.course_id = r.course_id
          /\ r.completed /\ r.completed_at # 0
          /\ list' = list /\ fetchPc' = fetchPc /\ course' = course]_vars

\* A record was created and the list page has read it.
C11_Witness ==
    /\ \E r \in rows : r.completed /\ r \in list.userCourses
    /\ call[Client].ops = <<"insert">> /\ call[Client].outcome = "success"

\* The messages of the error toasts.
ErrorToasts == {"NotFound", "StoreUnavailable", "Forbidden", "Conflict"}

\* C12: when a store call of the course page has failed, the step that handles
\* the answer shows an error: after a failed read of the progress record the
\* page shows an error toast and its view of the record is not set to "no
\* record"; after a failed update or insert of a toggle the page shows the
\* error and the call does not end as a success.
C12_StoreErrorsSurfaced ==
    [][\A s \in Sessions :
          /\ (fetchPc[s] = "progressFailed" /\ fetchPc'[s] = "none")
                => toast'[s] \in ErrorToasts
          /\ (togglePc[s] = "replied" /\ resp[s].error # "" /\ togglePc'[s] = "idle")
                => toast'[s] = resp[s].error /\ call'[s].outcome = "error"]_vars

\* The row a committed write of a toggle stored: the row the insert returned,
\* or the addressed row as the update left it.
StoredResult(q, r) == IF q.op = "insert" THEN r.data ELSE RowById(rows, q.id)

\* C13: when a toggle whose write the store committed ends successfully, the
\* page's userCourse has the completed and completed_at values the write
\* stored, on the insert path and on the update path.
C13_ViewIsStoredResult ==
    [][\A s \in Sessions :
          (/\ togglePc[s] = "replied" /\ togglePc'[s] = "idle"
           /\ resp[s].error = "" /\ call[s].muts = 1 /\ mounted[s])
          => /\ userCourse'[s].completed = StoredResult(req[s], resp[s]).completed
             /\ userCourse'[s].completed_at = StoredResult(req[s], resp[s]).completed_at]_vars

\* C14: ProtectedRoute renders its children only while it holds a user, and
\* then the client is signed in; as long as neither checkUser nor the listener
\* has reported an identity the loading placeholder is rendered; once an
\* identity was reported and the held user is null, the route renders the
\* redirect to /auth or has already left.
C14_ProtectedOnlyForUser ==
    /\ RouteView(route) = "children"
          => route.user # NoUser /\ authUid[Client] # NoUser
    /\ (route.mounted /\ ~route.answered) => RouteView(route) = "loading"
    /\ (route.answered /\ route.user = NoUser)
          => \/ RouteView(route) = "redirect"
             \/ RouteView(route) = "none"

\* The subscriptions the provider holds for the three components, and whether
\* each component is mounted.
Registry ==
    {<<list.subs, list.mounted>>, <<route.subs, route.mounted>>}
        \cup {<<subs[s], mounted[s]>> : s \in Sessions}

\* C15: a component has one subscription while it is mounted and none once it
\* is unmounted, so an identity transition invokes no listener of an
\* unmounted component and leaves its user state as it is.
C15_CancelledListenerSilent ==
    [][/\ \A e \in Registry' : e[1] = IF e[2] THEN 1 ELSE 0
       /\ authUid' # authUid =>
            /\ ~list.mounted => ~ListenerRuns(list.subs) /\ list'.user = list.user
            /\ ~route.mounted => ~ListenerRuns(route.subs) /\ route'.user = route.user
            /\ \A s \in Sessions :
                  ~mounted[s] => ~ListenerRuns(subs[s]) /\ user'[s] = user[s]]_vars

\* The identity changed after components that held a user were unmounted.
C15_Witness ==
    /\ ~list.mounted /\ list.user # NoUser
    /\ ~route.mounted /\ route.answered /\ route.user # NoUser
    /\ authUid[Client] \notin {route.user, list.user}

\* The toggles of a session that have started and not yet ended.
InFlight(s) ==
    {o.req : o \in {x \in orphans : x.s = s}}
        \cup (IF togglePc[s] = "idle" THEN {} ELSE {req[s]})

\* C16: a session has at most one toggle in flight, and the updating flag of
\* its course page is true exactly while a toggle of the session is in flight.
C16_SingleFlight ==
    \A s \in Sessions :
        /\ Cardinality(InFlight(s)) <= 1
        /\ mounted[s] => (updating[s] <=> InFlight(s) # {})

\* C17: a toggle whose request was sent goes on when its page is unmounted:
\* the store can still execute the request, an accepted request is written to
\* the table, and the step in which the handler ends (of an unmounted page or
\* of a replaced page) changes no state of any component.
C17_SentToggleOutlivesView ==
    [][\A s \in Sessions :
          /\ (~mounted[s] /\ togglePc[s] = "sent")
                => ENABLED (StoreUpdate(s) \/ StoreInsert(s))
          /\ (~mounted[s] /\ togglePc[s] = "sent" /\ togglePc'[s] = "replied"
                /\ resp'[s].error = "")
                => rows' = IF req[s].op = "insert" THEN rows \cup {resp'[s].data}
                           ELSE ApplyUpdate(rows, req[s])
          /\ (~mounted[s] /\ ~mounted'[s]
                /\ togglePc[s] = "replied" /\ togglePc'[s] = "idle")
                => UNCHANGED <<viewVars, mounted, list, route>>
          /\ (\E o \in orphans : o.s = s /\ o \notin orphans')
                => UNCHANGED <<viewVars, mounted, list, route>>]_vars

\* The insert of a page that was left while it was pending has been written
\* and its handler has ended.
C17_Witness ==
    /\ ~mounted[Client] /\ updating[Client] /\ togglePc[Client] = "idle"
    /\ call[Client].outcome = "success" /\ call[Client].muts = 1
    /\ \E r \in rows : r.user_id = call[Client].principal

\* An address in the standard sense: one at sign, no blank, a local part, and
\* a domain of at least two dot-separated labels, none of them empty.
ValidAddress(e) ==
    /\ Cardinality(Positions(e, "@")) = 1
    /\ Positions(e, " ") = {}
    /\ LET at == CHOOSE i \in Positions(e, "@") : TRUE
       IN /\ 1 < at /\ at < Len(e)
          /\ \E i \in Positions(e, ".") : i > at
          /\ \A i \in Positions(e, ".") :
                i > at => /\ i > at + 1 /\ i < Len(e) /\ e[i + 1] # "."

\* C18: a request reaches the identity provider only with a valid address and
\* a password of at least 6 code units; a submission that fails validation
\* sends nothing, leaves loading false and does not navigate.
C18_OnlyValidCredentialsSent ==
    [][/\ authPage'.sent # authPage.sent
            => /\ ValidAddress(authPage'.sent.email)
               /\ Len(authPage'.sent.password) >= MinPasswordLen
               /\ authPage'.loading
       /\ (authPage.pc = "none"
            /\ ~(IsEmail(authPage.email) /\ Len(authPage.password) >= MinPasswordLen))
            => /\ authPage'.sent = authPage.sent /\ authPage'.pc = "none"
               /\ ~authPage'.loading /\ authPage'.nav = authPage.nav
               /\ authUid' = authUid]_vars

\* A form with a valid address and a password that is too short was
\* submitted and rejected.
C18_Witness ==
    /\ IsEmail(authPage.email) /\ Len(authPage.password) = MinPasswordLen - 1
    /\ authPage.toast = "Validation Error"
    /\ authPage.sent = NoCredentials /\ ~authPage.loading /\ authPage.nav = "/auth"

\* C19: when the course read of a page finds no course for the route id, the
\* page shows the error, navigates to the home page, holds no course, ends
\* with loading false and fetchData ends there; the progress record is only
\* ever read for an id of the catalogue.
C19_MissingCourseNotFound ==
    [][\A s \in Sessions :
          /\ (fetchPc[s] = "course" /\ routeId[s] \notin catalog
                /\ fetchPc'[s] # fetchPc[s])
                => /\ toast'[s] = "NotFound" /\ nav'[s] = "/"
                   /\ course'[s] = NoCourse /\ userCourse'[s] = NullRow
                   /\ fetchPc'[s] = "none"
                   /\ ~mounted'[s]
                   /\ mounted[s] => ~loading'[s]
          /\ fetchPc'[s] = "progress" => routeId'[s] \in catalog]_vars

\* A page opened for an id that is not in the catalogue has ended its load.
C19_Witness ==
    /\ routeId[Client] \notin catalog /\ routeId[Client] # NoCourse
    /\ toast[Client] = "NotFound" /\ nav[Client] = "/"
    /\ ~loading[Client] /\ course[Client] = NoCourse /\ fetchPc[Client] = "none"

C21_BranchOnRecordOnly ==
    \A s \in Sessions :
        togglePc[s] # "idle" =>
            IF call[s].before # NullRow
            THEN /\ req[s].op = "update" /\ call[s].ops = <<"update">>
                 /\ req[s].id = call[s].before.id
            ELSE /\ req[s].op = "insert" /\ call[s].ops = <<"insert">>
                 /\ req[s].user_id = call[s].principal
                 /\ req[s].course_id = call[s].courseId

\* An update is pending for a held record that was not completed.
C21_Witness ==
    \E s \in Sessions :
        /\ togglePc[s] = "sent" /\ req[s].op = "update"
        /\ call[s].before # NullRow /\ ~call[s].before.completed

\* C22: when the handler of a mounted page ends with the store's error, the
\* page's userCourse is the one it held when the call began, the error is
\* shown and updating is false.
C22_RejectedToggleRestores ==
    [][\A s \in Sessions :
          (togglePc[s] = "replied" /\ resp[s].error # "" /\ togglePc'[s] = "idle"
           /\ mounted[s] /\ mounted'[s])
          => /\ userCourse'[s] = call[s].before /\ userCourse'[s] = userCourse[s]
             /\ toast'[s] = resp[s].error /\ toast'[s] \in ErrorToasts
             /\ call'[s].outcome = "error"
             /\ ~updating'[s]]_vars

\* An update of a held record was rejected and the page is ready again.
C22_Witness ==
    \E s \in Sessions :
        /\ mounted[s] /\ call[s].outcome = "error" /\ call[s].ops = <<"update">>
        /\ userCourse[s] = call[s].before /\ ~updating[s] /\ togglePc[s] = "idle"

\* C23: the progress data a mounted page holds belongs to the principal it
\* holds in user: a held userCourse of CourseDetail, and every record
\* CourseList derives its badges from, has the user_id of that principal.
C23_ProgressOfHeldPrincipal ==
    /\ \A s \in Sessions :
          (mounted[s] /\ user[s] # NoUser /\ userCourse[s] # NullRow)
              => userCourse[s].user_id = user[s]
    /\ (list.mounted /\ list.user # NoUser)
          => \A r \in list.userCourses : r.user_id = list.user

\* The catalogue holds both courses or only the first.
InitDetail ==
    /\ InitState
    /\ navbar = NavbarInit
    /\ catalog \in {Courses, DetailIds}
    /\ authUid \in [Sessions -> Users]
    /\ authPage = AuthPageInit

\* One CourseDetail whose route moves between course ids.
NextDetail ==
    \/ \E c \in DetailIds : Mount(Client, c)
    \/ \E c \in DetailIds : ChangeRoute(Client, c)
    \/ FetchGetUser(Client)
    \/ FetchCourse(Client)
    \/ FetchCourseError(Client)
    \/ FetchProgress(Client)
    \/ StaleGetUser(Client)
    \/ StaleCourse(Client)
    \/ StaleCourseError(Client)
    \/ StaleProgress(Client)
    \/ Leave(Client)
    \/ ToggleSendUpdate(Client)
    \/ ToggleSendInsert(Client)
    \/ StoreUpdate(Client)
    \/ StoreInsert(Client)
    \/ ToggleSuccess(Client)
    \/ ToggleError(Client)
    \/ OrphanComplete(Client)

SpecDetail == InitDetail /\ [][NextDetail]_vars

\* ---------------------------------------------------------------- Navbar
\* The mode the page is shown in: with enableSystem the theme "system"
\* resolves to the system's preference.
Mode(n) ==
    IF n.theme = "system" THEN (IF n.systemDark THEN "dark" ELSE "light")
    ELSE n.theme

\* toggleTheme: theme === "dark" ? "light" : "dark"
NextTheme(n) == IF n.theme = "dark" THEN "light" ELSE "dark"

\* toggleTheme: setTheme(theme === "dark" ? "light" : "dark")
ToggleTheme ==
    /\ Event
    /\ navbar' = [navbar EXCEPT !.theme = NextTheme(navbar), !.before = navbar.theme]
    /\ UNCHANGED <<storeVars, clock, authUid, detailVars, catalog, stale, list,
                   route, authPage>>

\* The system's colour scheme preference changes.
SystemThemeChange ==
    /\ Event
    /\ navbar' = [navbar EXCEPT !.systemDark = ~@]
    /\ UNCHANGED <<storeVars, clock, authUid, detailVars, catalog, stale, list,
                   route, authPage>>

\* handleLogout up to the await: supabase.auth.signOut() is called.
NavLogout ==
    /\ navbar.pc = "none"
    /\ navbar.nav = "/courses"
    /\ Event
    /\ navbar' = [navbar EXCEPT !.pc = "signOut"]
    /\ UNCHANGED <<storeVars, clock, authUid, detailVars, catalog, stale, list,
                   route, authPage>>

\* Variant: navigate("/") stands after the if statement.
NavSignOutErrorNavigates ==
    /\ navbar.pc = "signOutFailed"
    /\ navbar' = [navbar EXCEPT !.pc = "none", !.toast = "Failed to log out",
                                !.nav = "/"]
    /\ UNCHANGED <<nEvents, storeVars, clock, authUid, detailVars, catalog, stale,
                   list, route, authPage>>

\* signOut() succeeded: the client is signed out, the listeners are notified;
\* else: navigate("/").
NavSignOutOk ==
    /\ navbar.pc = "signOut"
    /\ navbar' = [navbar EXCEPT !.pc = "none", !.nav = "/"]
    /\ authUid' = [authUid EXCEPT ![Client] = NoUser]
    /\ user' = IF ListenerRuns(subs[Client])
               THEN SetState(Client, user, NoUser) ELSE user
    /\ list' = Notified(list, NoUser)
    /\ route' = RouteNotified(route, NoUser)
    /\ UNCHANGED <<nEvents, storeVars, clock, mounted, routeId, course, userCourse,
                   loading, updating, fetchVars, toggleVars, toast, nav, subs,
                   orphans, catalog, stale, authPage>>

\* signOut() resolves with an error; the session is kept.
NavSignOutUnavailable ==
    /\ navbar.pc = "signOut"
    /\ navbar' = [navbar EXCEPT !.pc = "signOutFailed"]
    /\ UNCHANGED <<nEvents, storeVars, clock, authUid, detailVars, catalog, stale,
                   list, route, authPage>>

\* handleLogout after the await, if (error): toast "Failed to log out. Please
\* try again."
NavSignOutError ==
    /\ navbar.pc = "signOutFailed"
    /\ navbar' = [navbar EXCEPT !.pc = "none", !.toast = "Failed to log out"]
    /\ UNCHANGED <<nEvents, storeVars, clock, authUid, detailVars, catalog, stale,
                   list, route, authPage>>

\* The promise of signOut() rejects: the await throws and handleLogout ends.
NavSignOutRejected ==
    /\ navbar.pc = "signOut"
    /\ navbar' = [navbar EXCEPT !.pc = "none"]
    /\ UNCHANGED <<nEvents, storeVars, clock, authUid, detailVars, catalog, stale,
                   list, route, authPage>>

\* A signed-in client on a page with the Navbar; the theme is the default or
\* the choice stored by an earlier visit.
InitNavbar ==
    /\ InitState
    /\ catalog = Courses
    /\ authUid \in [Sessions -> Users]
    /\ authPage = AuthPageInit
    /\ \E t \in Themes, d \in BOOLEAN :
          navbar = [NavbarInit EXCEPT !.theme = t, !.systemDark = d]

NextNavbar ==
    \/ ToggleTheme
    \/ SystemThemeChange
    \/ NavLogout
    \/ NavSignOutOk
    \/ NavSignOutUnavailable
    \/ NavSignOutError
    \/ NavSignOutRejected

SpecNavbar == InitNavbar /\ [][NextNavbar]_vars

\* ProtectedRoute alone, with every outcome of getUser().
NextRoute ==
    \/ RouteMount
    \/ RouteUnmount
    \/ RouteGetUser
    \/ RouteGetUserError
    \/ RouteGetUserRejected
    \/ RouteCheckUser
    \/ RouteRedirect
    \/ \E u \in Principals : ClientAuthChange(u)

\* getUser() completes, the continuation of an await that completed runs, and
\* React renders the state it was given; visitors and the identity provider
\* are under no obligation.
FairRoute ==
    /\ WF_vars(RouteGetUser \/ RouteGetUserError \/ RouteGetUserRejected)
    /\ WF_vars(RouteCheckUser)
    /\ WF_vars(RouteRedirect)

SpecRoute == InitClient /\ [][NextRoute]_vars /\ FairRoute

\* C24: once the listener of ProtectedRoute has delivered a sign-out, the held
\* user stays null and the children are not rendered until the listener
\* delivers a sign-in, whatever a getUser() that was pending resolves with.
C24_SignOutSticks ==
    (route.mounted /\ route.signedOut)
        => route.user = NoUser /\ RouteView(route) # "children"

\* C26: a mounted ProtectedRoute that is loading eventually stops loading (or
\* is left), whatever getUser() completes with, and from then on it renders
\* the children or the redirect for as long as it is mounted.
C26_LoadingEnds ==
    /\ [](route.mounted /\ route.loading
            => <>(~route.mounted \/ ~route.loading))
    /\ [][(route.mounted /\ ~route.loading /\ route'.mounted)
            => RouteView(route') \in {"children", "redirect"}]_vars

\* C25: while a toggle can be started on a CourseDetail, the course it shows
\* and the progress record it holds are those of the route's course id, and
\* an update a toggle sent addresses a record of the course the route had
\* when the toggle started.
C25_ViewOfCurrentRoute ==
    \A s \in Sessions :
        /\ (mounted[s] /\ ~loading[s] /\ ~updating[s] /\ course[s] # NoCourse)
              => /\ course[s] = routeId[s]
                 /\ userCourse[s] # NullRow => userCourse[s].course_id = routeId[s]
        /\ (togglePc[s] = "sent" /\ req[s].op = "update")
              => call[s].before.course_id = call[s].courseId

\* C27: a card of CourseList shows the completion badge exactly when the
\* fetched progress records that belong to the page's current principal
\* contain a completed record of the card's course.
C27_BadgeIffCompletedRecord ==
    \A c \in ShownCards(list) :
        Badge(list, c) <=> \E r \in list.userCourses :
                              /\ r.user_id = list.user
                              /\ r.course_id = c
                              /\ r.completed

C29_HomeOnlyAfterSignOut ==
    [][/\ navbar'.nav # navbar.nav
            => /\ navbar.pc = "signOut" /\ navbar'.nav = "/"
               /\ authUid'[Client] = NoUser /\ navbar'.toast = navbar.toast
       /\ (navbar.pc = "signOutFailed" /\ navbar'.pc = "none")
            => /\ navbar'.toast = "Failed to log out"
               /\ navbar'.nav = navbar.nav /\ authUid' = authUid]_vars

\* A logout failed and was reported; the page and the session are kept.
C29_Witness ==
    /\ navbar.toast = "Failed to log out" /\ navbar.pc = "none"
    /\ navbar.nav = "/courses" /\ authUid[Client] \in Users

\* C30: a toggle shows the opposite of the mode that was shown, and a toggle
\* that follows a toggle gives the theme value the first of them found.
C30_ToggleIsInvolution ==
    [][navbar'.theme # navbar.theme
          => /\ Mode(navbar') # Mode(navbar)
             /\ navbar.before # "none" => navbar'.theme = navbar.before]_vars

============================================================================
